---- MODULE Spec2Model ----
(***************************************************************************)
(* Event-management backend (NestJS + TypeORM): users, events, bookings    *)
(* and the event_attendees join table, behind the global JwtAuthGuard.     *)
(* A request is a task that suspends at every await of its handler; the    *)
(* database is the only shared state.                                      *)
(***************************************************************************)
EXTENDS Integers, Sequences, FiniteSets, TLC

\* ------------------------------------------------------------------ bounds
MaxUsers == 2
MaxEvents == 1
MaxBookings == 2
MaxTasks == 2
MaxTitleLen == 4
MaxLog == 4

UserIds == 1..MaxUsers
EventIds == 1..MaxEvents
BookingIds == 1..MaxBookings
Tasks == 1..MaxTasks

\* ------------------------------------------------------------------ inputs
Undefined == "<undefined>"

RegisterDtos ==
  { [email |-> "a@x.com", password |-> "secret1", displayName |-> "Ann",
     avatarUrl |-> Undefined, originWorld |-> Undefined],
    [email |-> "a@x.com", password |-> "secret2", displayName |-> "Bob",
     avatarUrl |-> "http://x/a.png", originWorld |-> "Earth"],
    [email |-> "b@x.com", password |-> "secret1", displayName |-> "Ann",
     avatarUrl |-> Undefined, originWorld |-> Undefined] }

LoginDtos ==
  { [email |-> e, password |-> p] :
      e \in {"a@x.com", "b@x.com"}, p \in {"secret1", "secret2"} }

NoArg == [none |-> TRUE]
NoLoc == [none |-> TRUE]

\* A title is the sequence of its characters.
TitleChars == {" ", "c", "X"}

\* "  conference   X  "
ExampleTitle ==
  <<" ", " ", "c", "o", "n", "f", "e", "r", "e", "n", "c", "e", " ", " ", " ", "X", " ", " ">>

\* CreateEventDto.title: a non-empty string.
Titles ==
  UNION {[1..n -> TitleChars] : n \in 1..MaxTitleLen} \cup {ExampleTitle}

DefaultTitle == <<"c">>

\* UpdateEventDto: title is optional and may be empty.
UpdateEventDtos == {NoArg} \cup {[title |-> x] : x \in Titles \cup {<<>>}}

NotesIn == {Undefined, "vip"}
BookingStatus == {"pending", "confirmed", "cancelled"}
StatusIn == BookingStatus \cup {Undefined}
UpdateBookingDtos == [status : StatusIn, notes : NotesIn]

NoPayload == [sub |-> 0, email |-> "", displayName |-> ""]
NoUser == [id |-> 0, email |-> "", displayName |-> "", avatarUrl |-> Undefined,
           originWorld |-> Undefined, isAlive |-> FALSE]

\* ------------------------------------------------------------------ state
VARIABLES
  users,          \* table users: id -> row
  nextUserId,     \* AUTO_INCREMENT of users.id
  events,         \* table events: id -> row
  nextEventId,    \* next generated event id
  bookings,       \* table bookings: id -> row
  nextBookingId,  \* AUTO_INCREMENT of bookings.id
  attendees,      \* join table event_attendees: set of <<event_id, user_id>>
  issued,         \* payloads of the tokens handed out in responses
  log,            \* the responses an end-to-end client has recorded, if it records
  tasks,          \* the requests in flight, one per slot
  last            \* the response the last step sent, if it sent one

vars == <<users, nextUserId, events, nextEventId, bookings, nextBookingId,
          attendees, issued, log, tasks, last>>
db == <<users, nextUserId, events, nextEventId, bookings, nextBookingId, attendees>>

NoHeader == [kind |-> "none", payload |-> NoPayload]

IdleTask == [op |-> "none", pc |-> "idle", header |-> NoHeader, user |-> NoUser,
             arg |-> NoArg, loc |-> NoLoc]

NoLast == [by |-> "none", op |-> "none", header |-> NoHeader, user |-> NoUser,
           arg |-> NoArg, status |-> "none", body |-> NoArg]

\* The client's record while it does not record.
NoLog == [on |-> FALSE, entries |-> <<>>]

InitDb ==
  /\ users = <<>>
  /\ nextUserId = 1
  /\ events = <<>>
  /\ nextEventId = 1
  /\ bookings = <<>>
  /\ nextBookingId = 1
  /\ attendees = {}
  /\ issued = {}
  /\ tasks = [t \in Tasks |-> IdleTask]
  /\ last = NoLast

Init == InitDb /\ log = NoLog

\* The application under an end-to-end client that records the responses to
\* its attendee requests.
InitE2E == InitDb /\ log = [NoLog EXCEPT !.on = TRUE]

\* ------------------------------------------------------------------ helpers
\* A function without the key k.
Without(f, k) == [x \in (DOMAIN f) \ {k} |-> f[x]]

\* A function with key k set to v (insert or overwrite).
With(f, k, v) == [x \in (DOMAIN f) \cup {k} |-> IF x = k THEN v ELSE f[x]]

InFlight(op) == Cardinality({t \in Tasks : tasks[t].op = op})

AttendeeOps == {"registerUserToEvent", "unregisterUserFromEvent", "getEventAttendees"}

\* The client keeps the last MaxLog responses to its attendee requests,
\* together with the rows of event_attendees the responding step found.
Record(entries, entry) ==
  IF Len(entries) < MaxLog THEN Append(entries, entry) ELSE Append(Tail(entries), entry)

\* The handler of task t throws or returns: the response goes out and the
\* slot is free again.
Finish(t, status, body) ==
  /\ tasks' = [tasks EXCEPT ![t] = IdleTask]
  /\ log' = IF log.on /\ tasks[t].op \in AttendeeOps
            THEN [log EXCEPT !.entries = Record(@,
                    [op |-> tasks[t].op, arg |-> tasks[t].arg, status |-> status,
                     body |-> body, before |-> attendees])]
            ELSE log
  /\ last' = [by |-> "handler", op |-> tasks[t].op, header |-> tasks[t].header,
              user |-> tasks[t].user, arg |-> tasks[t].arg,
              status |-> status, body |-> body]

\* The handler of task t suspends at its next await.
Continue(t, pc, loc) ==
  /\ tasks' = [tasks EXCEPT ![t].pc = pc, ![t].loc = loc]
  /\ log' = log
  /\ last' = NoLast

Msg(m) == [message |-> m]

\* Mutant: the password column is selected like every other column.
LoadedUser_WithPassword(u) ==
  [id |-> u.id, email |-> u.email, password |-> u.password,
   displayName |-> u.displayName, avatarUrl |-> u.avatarUrl,
   originWorld |-> u.originWorld, isAlive |-> u.isAlive]

\* A User as a find without an explicit select loads it: the password column
\* is declared select: false.
LoadedUser(u) ==
  [id |-> u.id, email |-> u.email, displayName |-> u.displayName,
   avatarUrl |-> u.avatarUrl, originWorld |-> u.originWorld, isAlive |-> u.isAlive]

\* ------------------------------------------------------------------ auth
\* bcrypt.hash(password, 10): the hash string of cost 10, one per password.
BcryptHash(password) ==
  CASE password = "secret1" -> "$2b$10$hashOfSecret1"
    [] password = "secret2" -> "$2b$10$hashOfSecret2"
    [] OTHER -> "$2b$10$hashOfOther"

\* bcrypt.compare(password, hash)
BcryptCompare(password, hash) == hash = BcryptHash(password)

\* AuthService.generateToken: the payload the token is signed over.
generateToken(user) ==
  [sub |-> user.id, email |-> user.email, displayName |-> user.displayName]

\* The Authorization headers a client can send: none, one that is no bearer
\* token, a token with a forged signature, and a token the server issued,
\* expired by now or not.
Headers ==
  { NoHeader,
    [kind |-> "malformed", payload |-> NoPayload] }
  \cup { [kind |-> "badsig", payload |-> [NoPayload EXCEPT !.sub = u]] : u \in UserIds }
  \cup { [kind |-> k, payload |-> p] : k \in {"expired", "valid"}, p \in issued }

\* The routes decorated with @Public().
IsPublic(op) == op \in {"register", "login"}

\* Mutant: ignoreExpiration: true.
JwtVerify_IgnoreExpiration(header) == header.kind \in {"valid", "expired"}

\* passport-jwt with fromAuthHeaderAsBearerToken, ignoreExpiration: false:
\* the token is present, well-formed, signed with the secret and not expired.
JwtVerify(header) == header.kind = "valid"

\* Mutant: the payload is trusted without loading the subject.
validate_NoLookup(payload) ==
  [ok |-> TRUE,
   user |-> [NoUser EXCEPT !.id = payload.sub, !.email = payload.email,
                           !.displayName = payload.displayName, !.isAlive = TRUE]]

\* Mutant: the user is looked up by the payload's displayName.
validate_ByDisplayName(payload) ==
  LET found == {u \in DOMAIN users : users[u].displayName = payload.displayName} IN
  IF payload.sub \in DOMAIN users /\ found # {}
  THEN [ok |-> TRUE, user |-> LoadedUser(users[CHOOSE u \in found : TRUE])]
  ELSE [ok |-> FALSE, user |-> NoUser]

\* JwtStrategy.validate: the subject is loaded from the users table.
validate(payload) ==
  IF payload.sub \in DOMAIN users
  THEN [ok |-> TRUE, user |-> LoadedUser(users[payload.sub])]
  ELSE [ok |-> FALSE, user |-> NoUser]

\* JwtAuthGuard.canActivate
canActivate(op, header) ==
  IF IsPublic(op) THEN [ok |-> TRUE, user |-> NoUser]
  ELSE IF JwtVerify(header) THEN validate(header.payload)
  ELSE [ok |-> FALSE, user |-> NoUser]

\* ------------------------------------------------------------------ requests
\* The first await of each handler.
FirstPc(op) ==
  CASE op = "register" -> "findUser"
    [] op = "login" -> "findUser"
    [] op = "profile" -> "handler"
    [] op = "userRemove" -> "delete"
    [] op = "eventCreate" -> "save"
    [] op = "eventUpdate" -> "findEvent"
    [] op = "eventRemove" -> "delete"
    [] op = "registerUserToEvent" -> "findEvent"
    [] op = "unregisterUserFromEvent" -> "findEvent"
    [] op = "getEventAttendees" -> "findEvent"
    [] op = "bookingCreate" -> "findEvent"
    [] op = "bookingFindAll" -> "find"
    [] op = "bookingFindOne" -> "findBooking"
    [] op = "bookingUpdate" -> "findBooking"
    [] op = "bookingRemove" -> "findBooking"

\* The slot a new request takes.
FreeSlot == CHOOSE t \in Tasks : tasks[t].pc = "idle" /\ \A u \in 1..(t - 1) : tasks[u].pc # "idle"

\* A request arrives: the global guard admits it to its handler or rejects it.
Arrive(op, header, arg) ==
  /\ \E t \in Tasks : tasks[t].pc = "idle"
  /\ LET g == canActivate(op, header) IN
       IF g.ok
       THEN /\ tasks' = [tasks EXCEPT ![FreeSlot] =
                 [op |-> op, pc |-> FirstPc(op), header |-> header, user |-> g.user,
                  arg |-> arg, loc |-> NoLoc]]
            /\ last' = NoLast
       ELSE /\ tasks' = tasks
            /\ last' = [by |-> "guard", op |-> op, header |-> header, user |-> NoUser,
                        arg |-> NoArg, status |-> "Unauthorized", body |-> Msg("Unauthorized")]
  /\ UNCHANGED <<db, issued, log>>

HeadersOf(kinds) == {h \in Headers : h.kind \in kinds}

\* POST /auth/register
ReqRegister(kinds, dtos) ==
  \E header \in HeadersOf(kinds), dto \in dtos :
    /\ nextUserId + InFlight("register") <= MaxUsers
    /\ Arrive("register", header, dto)

\* POST /auth/login
ReqLogin(kinds, dtos) ==
  \E header \in HeadersOf(kinds), dto \in dtos : Arrive("login", header, dto)

\* GET /auth/profile
ReqProfile(kinds) ==
  \E header \in HeadersOf(kinds) : Arrive("profile", header, NoArg)

\* DELETE /users/:id
ReqUserRemove(kinds) ==
  \E header \in HeadersOf(kinds), id \in UserIds :
    Arrive("userRemove", header, [id |-> id])

\* POST /events
ReqEventCreate(kinds, titles) ==
  \E header \in HeadersOf(kinds), title \in titles :
    /\ nextEventId + InFlight("eventCreate") <= MaxEvents
    /\ Arrive("eventCreate", header, [title |-> title])

\* PATCH /events/:id
ReqEventUpdate(kinds, dtos) ==
  \E header \in HeadersOf(kinds), id \in EventIds, dto \in dtos :
    Arrive("eventUpdate", header, [id |-> id, dto |-> dto])

\* DELETE /events/:id
ReqEventRemove(kinds) ==
  \E header \in HeadersOf(kinds), id \in EventIds :
    Arrive("eventRemove", header, [id |-> id])

\* POST /events/:eventId/register/:userId
ReqRegisterUser(kinds) ==
  \E header \in HeadersOf(kinds), e \in EventIds, u \in UserIds :
    Arrive("registerUserToEvent", header, [eventId |-> e, userId |-> u])

\* DELETE /events/:eventId/unregister/:userId
ReqUnregisterUser(kinds) ==
  \E header \in HeadersOf(kinds), e \in EventIds, u \in UserIds :
    Arrive("unregisterUserFromEvent", header, [eventId |-> e, userId |-> u])

\* GET /events/:eventId/attendees
ReqGetAttendees(kinds) ==
  \E header \in HeadersOf(kinds), e \in EventIds :
    Arrive("getEventAttendees", header, [eventId |-> e])

\* POST /bookings
ReqBookingCreate(kinds, notes) ==
  \E header \in HeadersOf(kinds), e \in EventIds, n \in notes :
    /\ nextBookingId + InFlight("bookingCreate") <= MaxBookings
    /\ Arrive("bookingCreate", header, [eventId |-> e, notes |-> n])

\* GET /bookings
ReqBookingFindAll(kinds) ==
  \E header \in HeadersOf(kinds) : Arrive("bookingFindAll", header, NoArg)

\* GET /bookings/:id
ReqBookingFindOne(kinds) ==
  \E header \in HeadersOf(kinds), id \in BookingIds :
    Arrive("bookingFindOne", header, [id |-> id])

\* PATCH /bookings/:id
ReqBookingUpdate(kinds, dtos) ==
  \E header \in HeadersOf(kinds), id \in BookingIds, dto \in dtos :
    Arrive("bookingUpdate", header, [id |-> id, status |-> dto.status, notes |-> dto.notes])

\* DELETE /bookings/:id
ReqBookingRemove(kinds) ==
  \E header \in HeadersOf(kinds), id \in BookingIds :
    Arrive("bookingRemove", header, [id |-> id])

At(t, op, pc) == tasks[t].op = op /\ tasks[t].pc = pc

\* ------------------------------------------------------------------ AuthService
UsersByEmail(email) == {u \in DOMAIN users : users[u].email = email}

PublicUser(user) ==
  [id |-> user.id, email |-> user.email, displayName |-> user.displayName,
   avatarUrl |-> user.avatarUrl, originWorld |-> user.originWorld,
   isAlive |-> user.isAlive]

\* Mutant: the existing-user lookup also matches on displayName.
RegisterFind_ByEmailAndName(t) ==
  /\ At(t, "register", "findUser")
  /\ IF \E u \in UsersByEmail(tasks[t].arg.email) :
          users[u].displayName = tasks[t].arg.displayName
     THEN Finish(t, "Conflict", Msg("El email ya esta registrado"))
     ELSE Continue(t, "save", NoLoc)
  /\ UNCHANGED <<db, issued>>

\* AuthService.register, up to the existing-user check.
RegisterFind(t) ==
  /\ At(t, "register", "findUser")
  /\ IF UsersByEmail(tasks[t].arg.email) # {}
     THEN Finish(t, "Conflict", Msg("El email ya esta registrado"))
     ELSE Continue(t, "save", NoLoc)
  /\ UNCHANGED <<db, issued>>

\* Mutant: users.email carries no unique index.
RegisterSave_NoUniqueIndex(t) ==
  /\ At(t, "register", "save")
  /\ LET dto == tasks[t].arg
         user == [id |-> nextUserId, email |-> dto.email,
                  password |-> BcryptHash(dto.password),
                  displayName |-> dto.displayName, avatarUrl |-> dto.avatarUrl,
                  originWorld |-> dto.originWorld, isAlive |-> TRUE]
     IN /\ users' = With(users, nextUserId, user)
        /\ nextUserId' = nextUserId + 1
        /\ issued' = issued \cup {generateToken(user)}
        /\ Finish(t, "Created",
             [access_token |-> generateToken(user), user |-> PublicUser(user)])
  /\ UNCHANGED <<events, nextEventId, bookings, nextBookingId, attendees>>

\* AuthService.register from the hash on: the insert (users.email carries a
\* unique index), the token and the response.
RegisterSave(t) ==
  /\ At(t, "register", "save")
  /\ LET dto == tasks[t].arg
         user == [id |-> nextUserId, email |-> dto.email,
                  password |-> BcryptHash(dto.password),
                  displayName |-> dto.displayName, avatarUrl |-> dto.avatarUrl,
                  originWorld |-> dto.originWorld, isAlive |-> TRUE]
     IN IF UsersByEmail(dto.email) # {}
        THEN /\ Finish(t, "InternalError", Msg("Internal server error"))
             /\ UNCHANGED <<users, nextUserId, issued>>
        ELSE /\ users' = With(users, nextUserId, user)
             /\ nextUserId' = nextUserId + 1
             /\ issued' = issued \cup {generateToken(user)}
             /\ Finish(t, "Created",
                  [access_token |-> generateToken(user), user |-> PublicUser(user)])
  /\ UNCHANGED <<events, nextEventId, bookings, nextBookingId, attendees>>

\* Mutant: an unknown email is answered differently from a wrong password.
Login_UserNotFound(t) ==
  /\ At(t, "login", "findUser")
  /\ LET dto == tasks[t].arg
         found == UsersByEmail(dto.email)
     IN IF found = {}
        THEN /\ Finish(t, "NotFound", Msg("Usuario no encontrado"))
             /\ UNCHANGED issued
        ELSE LET user == users[CHOOSE u \in found : TRUE] IN
             IF ~BcryptCompare(dto.password, user.password)
             THEN /\ Finish(t, "Unauthorized", Msg("Credenciales invalidas"))
                  /\ UNCHANGED issued
             ELSE /\ issued' = issued \cup {generateToken(user)}
                  /\ Finish(t, "Created",
                       [access_token |-> generateToken(user), user |-> PublicUser(user)])
  /\ UNCHANGED db

\* AuthService.login
Login(t) ==
  /\ At(t, "login", "findUser")
  /\ LET dto == tasks[t].arg
         found == UsersByEmail(dto.email)
     IN IF found = {}
        THEN /\ Finish(t, "Unauthorized", Msg("Credenciales invalidas"))
             /\ UNCHANGED issued
        ELSE LET user == users[CHOOSE u \in found : TRUE] IN
             IF ~BcryptCompare(dto.password, user.password)
             THEN /\ Finish(t, "Unauthorized", Msg("Credenciales invalidas"))
                  /\ UNCHANGED issued
             ELSE /\ issued' = issued \cup {generateToken(user)}
                  /\ Finish(t, "Created",
                       [access_token |-> generateToken(user), user |-> PublicUser(user)])
  /\ UNCHANGED db

\* AuthController.getProfile: the user the guard attached to the request.
Profile(t) ==
  /\ At(t, "profile", "handler")
  /\ Finish(t, "OK", PublicUser(tasks[t].user))
  /\ UNCHANGED <<db, issued>>

\* ------------------------------------------------------------------ UserService
BookingsOfUser(u) == {b \in DOMAIN bookings : bookings[b].userId = u}
BookingsOfEvent(e) == {b \in DOMAIN bookings : bookings[b].eventId = e}

\* UserService.remove: bookings.userId references users.id, and the rows of
\* event_attendees go with the user.
UserRemove(t) ==
  /\ At(t, "userRemove", "delete")
  /\ LET id == tasks[t].arg.id IN
     IF id \notin DOMAIN users
     THEN /\ Finish(t, "NotFound", Msg("User was not found"))
          /\ UNCHANGED <<users, attendees>>
     ELSE IF BookingsOfUser(id) # {}
     THEN /\ Finish(t, "InternalError", Msg("Internal server error"))
          /\ UNCHANGED <<users, attendees>>
     ELSE /\ users' = Without(users, id)
          /\ attendees' = {a \in attendees : a[2] # id}
          /\ Finish(t, "NoContent", NoArg)
  /\ UNCHANGED <<nextUserId, events, nextEventId, bookings, nextBookingId, issued>>

\* ------------------------------------------------------------------ EventService
\* String.prototype.toLowerCase and toUpperCase, character by character.
LowerOf(ch) == CASE ch = "C" -> "c" [] ch = "X" -> "x" [] OTHER -> ch

UpperOf(ch) ==
  CASE ch = "c" -> "C" [] ch = "x" -> "X" [] ch = "o" -> "O" [] ch = "n" -> "N"
    [] ch = "f" -> "F" [] ch = "e" -> "E" [] ch = "r" -> "R" [] OTHER -> ch

toLowerCase(s) == [i \in DOMAIN s |-> LowerOf(s[i])]

\* String.prototype.trim
RECURSIVE trimStart(_)
trimStart(s) == IF s # <<>> /\ Head(s) = " " THEN trimStart(Tail(s)) ELSE s

RECURSIVE trimEnd(_)
trimEnd(s) ==
  IF s # <<>> /\ s[Len(s)] = " " THEN trimEnd(SubSeq(s, 1, Len(s) - 1)) ELSE s

trim(s) == trimEnd(trimStart(s))

\* s.split(' '): the pieces between single spaces, empty pieces included.
RECURSIVE split(_)
split(s) ==
  IF \A i \in DOMAIN s : s[i] # " " THEN <<s>>
  ELSE LET i == CHOOSE k \in DOMAIN s : s[k] = " " /\ \A j \in 1..(k - 1) : s[j] # " "
       IN <<SubSeq(s, 1, i - 1)>> \o split(SubSeq(s, i + 1, Len(s)))

\* word.charAt(0).toUpperCase() + word.slice(1)
capitalize(word) == IF word = <<>> THEN <<>> ELSE <<UpperOf(Head(word))>> \o Tail(word)

\* words.join(' ')
RECURSIVE join(_)
join(words) ==
  IF Len(words) = 1 THEN words[1] ELSE words[1] \o <<" ">> \o join(Tail(words))

\* Event.normalizeBeforeInsert, the title.
normalizeBeforeInsert(title) ==
  IF title = <<>> THEN title
  ELSE LET words == split(toLowerCase(trim(title)))
       IN join([i \in DOMAIN words |-> capitalize(words[i])])

\* Event.normalizeBeforeUpdate, the title.
normalizeBeforeUpdate(title) ==
  IF title = <<>> THEN title
  ELSE LET words == split(toLowerCase(trim(title)))
       IN join([i \in DOMAIN words |-> capitalize(words[i])])

\* EventService.create: the @BeforeInsert hook runs inside save.
EventCreate(t) ==
  /\ At(t, "eventCreate", "save")
  /\ LET event == [id |-> nextEventId, title |-> normalizeBeforeInsert(tasks[t].arg.title)]
     IN /\ events' = With(events, nextEventId, event)
        /\ Finish(t, "Created", event)
  /\ nextEventId' = nextEventId + 1
  /\ UNCHANGED <<users, nextUserId, bookings, nextBookingId, attendees, issued>>

\* EventService.update: findOne and the assignments of the DTO's fields.
EventUpdateFind(t) ==
  /\ At(t, "eventUpdate", "findEvent")
  /\ LET id == tasks[t].arg.id
         dto == tasks[t].arg.dto
     IN IF id \notin DOMAIN events
        THEN Finish(t, "NotFound", Msg("Event was not found"))
        ELSE Continue(t, "save",
               IF "title" \in DOMAIN dto
               THEN [events[id] EXCEPT !.title = dto.title]
               ELSE events[id])
  /\ UNCHANGED <<db, issued>>

\* EventService.update: repository.save. The @BeforeUpdate hook runs when
\* the entity differs from its row; a row deleted meanwhile is inserted
\* again, through @BeforeInsert.
EventUpdateSave(t) ==
  /\ At(t, "eventUpdate", "save")
  /\ LET event == tasks[t].loc
         stored == IF event.id \notin DOMAIN events
                   THEN [event EXCEPT !.title = normalizeBeforeInsert(event.title)]
                   ELSE IF event # events[event.id]
                   THEN [event EXCEPT !.title = normalizeBeforeUpdate(event.title)]
                   ELSE event
     IN /\ events' = With(events, event.id, stored)
        /\ Finish(t, "OK", stored)
  /\ UNCHANGED <<users, nextUserId, nextEventId, bookings, nextBookingId, attendees, issued>>

\* Mutant: bookings.eventId carries no foreign key.
EventRemove_NoForeignKey(t) ==
  /\ At(t, "eventRemove", "delete")
  /\ LET id == tasks[t].arg.id IN
     IF id \notin DOMAIN events
     THEN /\ Finish(t, "NotFound", Msg("Event was not found"))
          /\ UNCHANGED <<events, attendees>>
     ELSE /\ events' = Without(events, id)
          /\ attendees' = {a \in attendees : a[1] # id}
          /\ Finish(t, "NoContent", NoArg)
  /\ UNCHANGED <<users, nextUserId, nextEventId, bookings, nextBookingId, issued>>

\* EventService.remove: bookings.eventId references events.id, and the rows
\* of event_attendees go with the event.
EventRemove(t) ==
  /\ At(t, "eventRemove", "delete")
  /\ LET id == tasks[t].arg.id IN
     IF id \notin DOMAIN events
     THEN /\ Finish(t, "NotFound", Msg("Event was not found"))
          /\ UNCHANGED <<events, attendees>>
     ELSE IF BookingsOfEvent(id) # {}
     THEN /\ Finish(t, "InternalError", Msg("Internal server error"))
          /\ UNCHANGED <<events, attendees>>
     ELSE /\ events' = Without(events, id)
          /\ attendees' = {a \in attendees : a[1] # id}
          /\ Finish(t, "NoContent", NoArg)
  /\ UNCHANGED <<users, nextUserId, nextEventId, bookings, nextBookingId, issued>>

\* ------------------------------------------------------------------ attendees
\* The user ids event_attendees holds for event e.
AttendeesOf(e) == {a[2] : a \in {x \in attendees : x[1] = e}}

SortedIds(S) ==
  CHOOSE s \in [1..Cardinality(S) -> S] :
    \A i, j \in 1..Cardinality(S) : i < j => s[i] < s[j]

\* repository.findOne({ where: { id }, relations: ['attendees'] }): the event
\* with its attendees as an array of users, in id order.
LoadedEvent(e) ==
  LET ids == SortedIds(AttendeesOf(e)) IN
  [id |-> e, title |-> events[e].title,
   attendees |-> [i \in DOMAIN ids |-> LoadedUser(users[ids[i]])]]

\* The ids of an array of users.
IdsOf(list) == {list[i].id : i \in DOMAIN list}

\* Mutant: the user is looked up before the event.
RegisterUserFindEvent_UserFirst(t) ==
  /\ At(t, "registerUserToEvent", "findEvent")
  /\ LET e == tasks[t].arg.eventId IN
     IF tasks[t].arg.userId \notin DOMAIN users
     THEN Finish(t, "NotFound", Msg("User was not found"))
     ELSE IF e \notin DOMAIN events
     THEN Finish(t, "NotFound", Msg("Event was not found"))
     ELSE Continue(t, "findUser", [event |-> LoadedEvent(e)])
  /\ UNCHANGED <<db, issued>>

\* EventService.registerUserToEvent: the event lookup.
RegisterUserFindEvent(t) ==
  /\ At(t, "registerUserToEvent", "findEvent")
  /\ LET e == tasks[t].arg.eventId IN
     IF e \notin DOMAIN events
     THEN Finish(t, "NotFound", Msg("Event was not found"))
     ELSE Continue(t, "findUser", [event |-> LoadedEvent(e)])
  /\ UNCHANGED <<db, issued>>

\* Mutant: the already-registered check is left out.
RegisterUserFindUser_NoCheck(t) ==
  /\ At(t, "registerUserToEvent", "findUser")
  /\ LET u == tasks[t].arg.userId
         event == tasks[t].loc.event
     IN IF u \notin DOMAIN users
        THEN Finish(t, "NotFound", Msg("User was not found"))
        ELSE Continue(t, "saveLoad",
               [event |-> [event EXCEPT !.attendees = Append(@, LoadedUser(users[u]))]])
  /\ UNCHANGED <<db, issued>>

\* Mutant: the already-registered check reads the stored attendees anew.
RegisterUserFindUser_FreshCheck(t) ==
  /\ At(t, "registerUserToEvent", "findUser")
  /\ LET u == tasks[t].arg.userId
         event == tasks[t].loc.event
     IN IF u \notin DOMAIN users
        THEN Finish(t, "NotFound", Msg("User was not found"))
        ELSE IF u \in AttendeesOf(event.id)
        THEN Finish(t, "BadRequest", Msg("User is already registered to event"))
        ELSE Continue(t, "saveLoad",
               [event |-> [event EXCEPT !.attendees = Append(@, LoadedUser(users[u]))]])
  /\ UNCHANGED <<db, issued>>

\* EventService.registerUserToEvent: the user lookup, the already-registered
\* check on the loaded array and the append to it.
RegisterUserFindUser(t) ==
  /\ At(t, "registerUserToEvent", "findUser")
  /\ LET u == tasks[t].arg.userId
         event == tasks[t].loc.event
     IN IF u \notin DOMAIN users
        THEN Finish(t, "NotFound", Msg("User was not found"))
        ELSE IF \E i \in DOMAIN event.attendees : event.attendees[i].id = u
        THEN Finish(t, "BadRequest", Msg("User is already registered to event"))
        ELSE Continue(t, "saveLoad",
               [event |-> [event EXCEPT !.attendees = Append(@, LoadedUser(users[u]))]])
  /\ UNCHANGED <<db, issued>>

\* Mutant: a user who is not an attendee is unregistered without complaint.
UnregisterUserFind_Silent(t) ==
  /\ At(t, "unregisterUserFromEvent", "findEvent")
  /\ LET e == tasks[t].arg.eventId
         u == tasks[t].arg.userId
     IN IF e \notin DOMAIN events
        THEN Finish(t, "NotFound", Msg("Event was not found"))
        ELSE Continue(t, "saveLoad",
               [event |-> [LoadedEvent(e) EXCEPT
                             !.attendees = SelectSeq(@, LAMBDA a : a.id # u)]])
  /\ UNCHANGED <<db, issued>>

\* EventService.unregisterUserFromEvent: the event lookup, the registered
\* check on the loaded array and the filter of it.
UnregisterUserFind(t) ==
  /\ At(t, "unregisterUserFromEvent", "findEvent")
  /\ LET e == tasks[t].arg.eventId
         u == tasks[t].arg.userId
     IN IF e \notin DOMAIN events
        THEN Finish(t, "NotFound", Msg("Event was not found"))
        ELSE IF \A i \in DOMAIN LoadedEvent(e).attendees : LoadedEvent(e).attendees[i].id # u
        THEN Finish(t, "BadRequest", Msg("User is not registered to event"))
        ELSE Continue(t, "saveLoad",
               [event |-> [LoadedEvent(e) EXCEPT
                             !.attendees = SelectSeq(@, LAMBDA a : a.id # u)]])
  /\ UNCHANGED <<db, issued>>

SavesAttendees(t) ==
  tasks[t].op \in {"registerUserToEvent", "unregisterUserFromEvent"}

\* repository.save(event), first half: TypeORM reads the event's row and the
\* ids of its attendees as they are stored now.
AttendeesSaveLoad(t) ==
  /\ SavesAttendees(t)
  /\ tasks[t].pc = "saveLoad"
  /\ LET e == tasks[t].loc.event.id IN
     Continue(t, "saveWrite",
       [event |-> tasks[t].loc.event, dbExists |-> e \in DOMAIN events,
        dbAttendees |-> AttendeesOf(e)])
  /\ UNCHANGED <<db, issued>>

\* Mutant: the save inserts the rows the array adds and deletes none.
AttendeesSaveWrite_InsertOnly(t) ==
  /\ SavesAttendees(t)
  /\ tasks[t].pc = "saveWrite"
  /\ LET event == tasks[t].loc.event
         e == event.id
         inserts == IdsOf(event.attendees) \ tasks[t].loc.dbAttendees
         insertEvent == ~tasks[t].loc.dbExists
     IN IF \/ insertEvent /\ e \in DOMAIN events
           \/ ~insertEvent /\ e \notin DOMAIN events /\ inserts # {}
           \/ \E u \in inserts : <<e, u>> \in attendees \/ u \notin DOMAIN users
        THEN /\ Finish(t, "InternalError", Msg("Internal server error"))
             /\ UNCHANGED <<events, attendees>>
        ELSE /\ events' = IF insertEvent
                          THEN With(events, e,
                                 [id |-> e, title |-> normalizeBeforeInsert(event.title)])
                          ELSE events
             /\ attendees' = attendees \cup {<<e, u>> : u \in inserts}
             /\ Finish(t, IF tasks[t].op = "registerUserToEvent" THEN "Created" ELSE "OK",
                       event)
  /\ UNCHANGED <<users, nextUserId, nextEventId, bookings, nextBookingId, issued>>

\* repository.save(event), second half: the rows of event_attendees that the
\* array has and the read did not are inserted, those the read had and the
\* array has not are deleted. The table's primary key is (event_id, user_id)
\* and both columns are foreign keys; an event whose row the read did not
\* find is inserted.
AttendeesSaveWrite(t) ==
  /\ SavesAttendees(t)
  /\ tasks[t].pc = "saveWrite"
  /\ LET event == tasks[t].loc.event
         e == event.id
         inserts == IdsOf(event.attendees) \ tasks[t].loc.dbAttendees
         removes == tasks[t].loc.dbAttendees \ IdsOf(event.attendees)
         insertEvent == ~tasks[t].loc.dbExists
     IN IF \/ insertEvent /\ e \in DOMAIN events
           \/ ~insertEvent /\ e \notin DOMAIN events /\ inserts # {}
           \/ \E u \in inserts : <<e, u>> \in attendees \/ u \notin DOMAIN users
        THEN /\ Finish(t, "InternalError", Msg("Internal server error"))
             /\ UNCHANGED <<events, attendees>>
        ELSE /\ events' = IF insertEvent
                          THEN With(events, e,
                                 [id |-> e, title |-> normalizeBeforeInsert(event.title)])
                          ELSE events
             /\ attendees' = (attendees \ {<<e, u>> : u \in removes})
                                \cup {<<e, u>> : u \in inserts}
             /\ Finish(t, IF tasks[t].op = "registerUserToEvent" THEN "Created" ELSE "OK",
                       event)
  /\ UNCHANGED <<users, nextUserId, nextEventId, bookings, nextBookingId, issued>>

\* EventService.getEventAttendees
GetEventAttendees(t) ==
  /\ At(t, "getEventAttendees", "findEvent")
  /\ LET e == tasks[t].arg.eventId IN
     IF e \notin DOMAIN events
     THEN Finish(t, "NotFound", Msg("Event was not found"))
     ELSE Finish(t, "OK", LoadedEvent(e).attendees)
  /\ UNCHANGED <<db, issued>>

\* ------------------------------------------------------------------ BookingService
\* Mutant: the lookup skips cancelled bookings.
BookingsOfPair_NotCancelled(u, e) ==
  {b \in DOMAIN bookings :
     bookings[b].userId = u /\ bookings[b].eventId = e /\ bookings[b].status # "cancelled"}

\* bookingRepository.findOne({ where: { userId, eventId } })
BookingsOfPair(u, e) ==
  {b \in DOMAIN bookings : bookings[b].userId = u /\ bookings[b].eventId = e}

\* A booking loaded with relations: ['user', 'event'].
Joined(b) ==
  [id |-> b.id, userId |-> b.userId, eventId |-> b.eventId, status |-> b.status,
   notes |-> b.notes, createdAt |-> b.createdAt,
   user |-> IF b.userId \in DOMAIN users THEN LoadedUser(users[b.userId]) ELSE NoUser,
   event |-> IF b.eventId \in DOMAIN events THEN events[b.eventId] ELSE [id |-> 0, title |-> <<>>]]

\* Mutant: a field the dto does not carry falls back to the column default.
Assign_ResetMissing(b, dto) ==
  [b EXCEPT !.status = IF dto.status # Undefined THEN dto.status ELSE "pending",
            !.notes = IF dto.notes # Undefined THEN dto.notes ELSE Undefined]

\* Object.assign(booking, updateBookingDto): the fields the dto carries.
Assign(b, dto) ==
  [b EXCEPT !.status = IF dto.status # Undefined THEN dto.status ELSE @,
            !.notes = IF dto.notes # Undefined THEN dto.notes ELSE @]

\* The foreign keys of a bookings row resolve.
BookingRefsOk(b) == b.userId \in DOMAIN users /\ b.eventId \in DOMAIN events

\* @CreateDateColumn: the instant the database stamps on an inserted booking,
\* that of the insert before it or a later one.
Instants == IF nextBookingId = 1 THEN {1} ELSE {nextBookingId - 1, nextBookingId}

\* Mutant: the event lookup is skipped.
BookingCreateFindEvent_NoCheck(t) ==
  /\ At(t, "bookingCreate", "findEvent")
  /\ Continue(t, "findExisting", NoLoc)
  /\ UNCHANGED <<db, issued>>

\* BookingService.create: the event lookup.
BookingCreateFindEvent(t) ==
  /\ At(t, "bookingCreate", "findEvent")
  /\ IF tasks[t].arg.eventId \notin DOMAIN events
     THEN Finish(t, "NotFound", Msg("El evento no fue encontrado"))
     ELSE Continue(t, "findExisting", NoLoc)
  /\ UNCHANGED <<db, issued>>

\* Mutant: the existing-booking check is skipped.
BookingCreateFindExisting_NoCheck(t) ==
  /\ At(t, "bookingCreate", "findExisting")
  /\ Continue(t, "save", NoLoc)
  /\ UNCHANGED <<db, issued>>

\* BookingService.create: the existing-booking check.
BookingCreateFindExisting(t) ==
  /\ At(t, "bookingCreate", "findExisting")
  /\ IF BookingsOfPair(tasks[t].user.id, tasks[t].arg.eventId) # {}
     THEN Finish(t, "Conflict", Msg("Ya tienes una reserva para este evento"))
     ELSE Continue(t, "save", NoLoc)
  /\ UNCHANGED <<db, issued>>

\* Mutant: a unique index on (userId, eventId) rejects the second insert.
BookingCreateSave_UniquePair(t) ==
  /\ At(t, "bookingCreate", "save")
  /\ \E createdAt \in Instants :
     LET booking == [id |-> nextBookingId, userId |-> tasks[t].user.id,
                     eventId |-> tasks[t].arg.eventId, status |-> "pending",
                     notes |-> tasks[t].arg.notes, createdAt |-> createdAt]
     IN IF ~BookingRefsOk(booking) \/ BookingsOfPair(booking.userId, booking.eventId) # {}
        THEN /\ Finish(t, "InternalError", Msg("Internal server error"))
             /\ UNCHANGED <<bookings, nextBookingId>>
        ELSE /\ bookings' = With(bookings, nextBookingId, booking)
             /\ nextBookingId' = nextBookingId + 1
             /\ Continue(t, "reload", [id |-> nextBookingId])
  /\ UNCHANGED <<users, nextUserId, events, nextEventId, attendees, issued>>

\* Mutant: the new booking is created confirmed.
BookingCreateSave_Confirmed(t) ==
  /\ At(t, "bookingCreate", "save")
  /\ \E createdAt \in Instants :
     LET booking == [id |-> nextBookingId, userId |-> tasks[t].user.id,
                     eventId |-> tasks[t].arg.eventId, status |-> "confirmed",
                     notes |-> tasks[t].arg.notes, createdAt |-> createdAt]
     IN IF ~BookingRefsOk(booking)
        THEN /\ Finish(t, "InternalError", Msg("Internal server error"))
             /\ UNCHANGED <<bookings, nextBookingId>>
        ELSE /\ bookings' = With(bookings, nextBookingId, booking)
             /\ nextBookingId' = nextBookingId + 1
             /\ Continue(t, "reload", [id |-> nextBookingId])
  /\ UNCHANGED <<users, nextUserId, events, nextEventId, attendees, issued>>

\* BookingService.create: bookingRepository.save of the new booking; status
\* takes the column default.
BookingCreateSave(t) ==
  /\ At(t, "bookingCreate", "save")
  /\ \E createdAt \in Instants :
     LET booking == [id |-> nextBookingId, userId |-> tasks[t].user.id,
                     eventId |-> tasks[t].arg.eventId, status |-> "pending",
                     notes |-> tasks[t].arg.notes, createdAt |-> createdAt]
     IN IF ~BookingRefsOk(booking)
        THEN /\ Finish(t, "InternalError", Msg("Internal server error"))
             /\ UNCHANGED <<bookings, nextBookingId>>
        ELSE /\ bookings' = With(bookings, nextBookingId, booking)
             /\ nextBookingId' = nextBookingId + 1
             /\ Continue(t, "reload", [id |-> nextBookingId])
  /\ UNCHANGED <<users, nextUserId, events, nextEventId, attendees, issued>>

\* BookingService.create: the saved booking is read back with its relations.
BookingCreateReload(t) ==
  /\ At(t, "bookingCreate", "reload")
  /\ IF tasks[t].loc.id \notin DOMAIN bookings
     THEN Finish(t, "NotFound", Msg("Error al crear la reserva"))
     ELSE Finish(t, "Created", Joined(bookings[tasks[t].loc.id]))
  /\ UNCHANGED <<db, issued>>

\* BookingService.findOne
BookingFindOne(t) ==
  /\ At(t, "bookingFindOne", "findBooking")
  /\ LET id == tasks[t].arg.id IN
     IF id \notin DOMAIN bookings
     THEN Finish(t, "NotFound", Msg("La reserva no fue encontrada"))
     ELSE IF bookings[id].userId # tasks[t].user.id
     THEN Finish(t, "Forbidden", Msg("No tienes permiso para ver esta reserva"))
     ELSE Finish(t, "OK", Joined(bookings[id]))
  /\ UNCHANGED <<db, issued>>

\* A booking loaded with relations: ['event'].
WithEvent(b) ==
  [id |-> b.id, userId |-> b.userId, eventId |-> b.eventId, status |-> b.status,
   notes |-> b.notes, createdAt |-> b.createdAt,
   event |-> IF b.eventId \in DOMAIN events THEN events[b.eventId] ELSE [id |-> 0, title |-> <<>>]]

\* order: { createdAt: 'DESC' }: the arrangements of the bookings S with no
\* earlier booking before a later one; bookings of one instant come in
\* either order.
NewestFirst(S) ==
  { s \in [1..Cardinality(S) -> S] :
      /\ \A i, j \in DOMAIN s : i # j => s[i] # s[j]
      /\ \A i, j \in DOMAIN s :
           i < j => bookings[s[i]].createdAt >= bookings[s[j]].createdAt }

\* Mutant: the where clause is missing.
FoundByUser_All(u) == DOMAIN bookings

\* where: { userId }
FoundByUser(u) == {b \in DOMAIN bookings : bookings[b].userId = u}

\* BookingService.findAllByUser
BookingFindAll(t) ==
  /\ At(t, "bookingFindAll", "find")
  /\ \E s \in NewestFirst(FoundByUser(tasks[t].user.id)) :
       Finish(t, "OK", [i \in DOMAIN s |-> WithEvent(bookings[s[i]])])
  /\ UNCHANGED <<db, issued>>

\* Mutant: the ownership check comes first and takes a missing booking for
\* somebody else's.
BookingUpdateFind_OwnerFirst(t) ==
  /\ At(t, "bookingUpdate", "findBooking")
  /\ LET id == tasks[t].arg.id IN
     IF id \notin DOMAIN bookings \/ bookings[id].userId # tasks[t].user.id
     THEN Finish(t, "Forbidden", Msg("No tienes permiso para modificar esta reserva"))
     ELSE Continue(t, "save", Assign(bookings[id], tasks[t].arg))
  /\ UNCHANGED <<db, issued>>

\* Mutant: a cancelled booking is final.
BookingUpdateFind_CancelledFinal(t) ==
  /\ At(t, "bookingUpdate", "findBooking")
  /\ LET id == tasks[t].arg.id IN
     IF id \notin DOMAIN bookings
     THEN Finish(t, "NotFound", Msg("La reserva no fue encontrada"))
     ELSE IF bookings[id].userId # tasks[t].user.id
     THEN Finish(t, "Forbidden", Msg("No tienes permiso para modificar esta reserva"))
     ELSE IF bookings[id].status = "cancelled"
     THEN Finish(t, "BadRequest", Msg("La reserva esta cancelada"))
     ELSE Continue(t, "save", Assign(bookings[id], tasks[t].arg))
  /\ UNCHANGED <<db, issued>>

\* BookingService.update: the lookup, the ownership check and Object.assign.
BookingUpdateFind(t) ==
  /\ At(t, "bookingUpdate", "findBooking")
  /\ LET id == tasks[t].arg.id IN
     IF id \notin DOMAIN bookings
     THEN Finish(t, "NotFound", Msg("La reserva no fue encontrada"))
     ELSE IF bookings[id].userId # tasks[t].user.id
     THEN Finish(t, "Forbidden", Msg("No tienes permiso para modificar esta reserva"))
     ELSE Continue(t, "save", Assign(bookings[id], tasks[t].arg))
  /\ UNCHANGED <<db, issued>>

\* BookingService.update: bookingRepository.save of the loaded booking, which
\* updates the row with that id, or inserts it when no such row exists.
BookingUpdateSave(t) ==
  /\ At(t, "bookingUpdate", "save")
  /\ LET booking == tasks[t].loc IN
     IF booking.id \notin DOMAIN bookings /\ ~BookingRefsOk(booking)
     THEN /\ Finish(t, "InternalError", Msg("Internal server error"))
          /\ UNCHANGED bookings
     ELSE /\ bookings' = With(bookings, booking.id, booking)
          /\ Continue(t, "reload", NoLoc)
  /\ UNCHANGED <<users, nextUserId, events, nextEventId, nextBookingId, attendees, issued>>

\* BookingService.update: the booking is read back with its relations.
BookingUpdateReload(t) ==
  /\ At(t, "bookingUpdate", "reload")
  /\ IF tasks[t].arg.id \notin DOMAIN bookings
     THEN Finish(t, "NotFound", Msg("Error al actualizar la reserva"))
     ELSE Finish(t, "OK", Joined(bookings[tasks[t].arg.id]))
  /\ UNCHANGED <<db, issued>>

\* Mutant: the ownership check is missing.
BookingRemoveFind_NoOwnerCheck(t) ==
  /\ At(t, "bookingRemove", "findBooking")
  /\ IF tasks[t].arg.id \notin DOMAIN bookings
     THEN Finish(t, "NotFound", Msg("La reserva no fue encontrada"))
     ELSE Continue(t, "remove", NoLoc)
  /\ UNCHANGED <<db, issued>>

\* BookingService.remove: the lookup and the ownership check.
BookingRemoveFind(t) ==
  /\ At(t, "bookingRemove", "findBooking")
  /\ LET id == tasks[t].arg.id IN
     IF id \notin DOMAIN bookings
     THEN Finish(t, "NotFound", Msg("La reserva no fue encontrada"))
     ELSE IF bookings[id].userId # tasks[t].user.id
     THEN Finish(t, "Forbidden", Msg("No tienes permiso para eliminar esta reserva"))
     ELSE Continue(t, "remove", NoLoc)
  /\ UNCHANGED <<db, issued>>

\* Mutant: removing a booking also ends the user's attendance of the event.
BookingRemoveDelete_Unregisters(t) ==
  /\ At(t, "bookingRemove", "remove")
  /\ bookings' = Without(bookings, tasks[t].arg.id)
  /\ attendees' = IF tasks[t].arg.id \in DOMAIN bookings
                  THEN attendees \ {<<bookings[tasks[t].arg.id].eventId,
                                      bookings[tasks[t].arg.id].userId>>}
                  ELSE attendees
  /\ Finish(t, "NoContent", NoArg)
  /\ UNCHANGED <<users, nextUserId, events, nextEventId, nextBookingId, issued>>

\* BookingService.remove: bookingRepository.remove of the loaded booking.
BookingRemoveDelete(t) ==
  /\ At(t, "bookingRemove", "remove")
  /\ bookings' = Without(bookings, tasks[t].arg.id)
  /\ Finish(t, "NoContent", NoArg)
  /\ UNCHANGED <<users, nextUserId, events, nextEventId, nextBookingId, attendees, issued>>

\* ------------------------------------------------------------------ specifications
AllIdle == \A t \in Tasks : tasks[t].pc = "idle"

AllKinds == {"none", "malformed", "badsig", "expired", "valid"}

AuthSteps(t) ==
  \/ RegisterFind(t)
  \/ RegisterSave(t)
  \/ Login(t)
  \/ Profile(t)
  \/ UserRemove(t)

EventSteps(t) ==
  \/ EventCreate(t)
  \/ EventRemove(t)

AttendeeSteps(t) ==
  \/ RegisterUserFindEvent(t)
  \/ RegisterUserFindUser(t)
  \/ UnregisterUserFind(t)
  \/ AttendeesSaveLoad(t)
  \/ AttendeesSaveWrite(t)
  \/ GetEventAttendees(t)

EventUpdateSteps(t) ==
  \/ EventUpdateFind(t)
  \/ EventUpdateSave(t)

BookingSteps(t) ==
  \/ BookingCreateFindEvent(t)
  \/ BookingCreateFindExisting(t)
  \/ BookingCreateSave(t)
  \/ BookingCreateReload(t)
  \/ BookingFindOne(t)
  \/ BookingUpdateFind(t)
  \/ BookingUpdateSave(t)
  \/ BookingUpdateReload(t)
  \/ BookingRemoveFind(t)
  \/ BookingRemoveDelete(t)

Requests(kinds) ==
  \/ ReqRegister(kinds, RegisterDtos)
  \/ ReqLogin(kinds, LoginDtos)
  \/ ReqProfile(kinds)
  \/ ReqUserRemove(kinds)
  \/ ReqEventCreate(kinds, {DefaultTitle})
  \/ ReqEventRemove(kinds)
  \/ ReqBookingCreate(kinds, NotesIn)
  \/ ReqBookingFindOne(kinds)
  \/ ReqBookingUpdate(kinds, UpdateBookingDtos)
  \/ ReqBookingRemove(kinds)

Steps == \E t \in Tasks : AuthSteps(t) \/ EventSteps(t) \/ BookingSteps(t)

\* Requests interleave at their awaits.
Next == Requests(AllKinds) \/ Steps

Spec == Init /\ [][Next]_vars

\* Requests run one at a time, each to completion before the next starts.
NextSeq == (AllIdle /\ Requests({"none", "valid"})) \/ Steps

SpecSeq == Init /\ [][NextSeq]_vars

\* The booking requests of two registered users, interleaved.
BookingDtos == {d \in RegisterDtos : d.password = "secret1"}

BookingUpdates ==
  { [status |-> "cancelled", notes |-> Undefined],
    [status |-> Undefined, notes |-> "vip"] }

NextBooking ==
  \/ ReqRegister({"none"}, BookingDtos)
  \/ ReqEventCreate({"valid"}, {DefaultTitle})
  \/ ReqBookingCreate({"valid"}, {Undefined})
  \/ ReqBookingFindOne({"valid"})
  \/ ReqBookingUpdate({"valid"}, BookingUpdates)
  \/ ReqBookingRemove({"valid"})
  \/ \E t \in Tasks : RegisterFind(t) \/ RegisterSave(t) \/ EventCreate(t) \/ BookingSteps(t)

SpecBooking == Init /\ [][NextBooking]_vars

\* The guard and the auth requests under every kind of header, interleaved.
NextAuth ==
  \/ ReqRegister(AllKinds, RegisterDtos)
  \/ ReqLogin(AllKinds, LoginDtos)
  \/ ReqProfile(AllKinds)
  \/ ReqUserRemove(AllKinds)
  \/ \E t \in Tasks : AuthSteps(t)

SpecAuth == Init /\ [][NextAuth]_vars

\* Every route under every kind of header, one request at a time.
GuardLogins == {d \in LoginDtos : d.email = "a@x.com"}

NextGuard ==
  \/ AllIdle /\ ReqRegister(AllKinds, BookingDtos)
  \/ AllIdle /\ ReqLogin(AllKinds, GuardLogins)
  \/ AllIdle /\ ReqProfile(AllKinds)
  \/ AllIdle /\ ReqUserRemove(AllKinds)
  \/ AllIdle /\ ReqEventCreate(AllKinds, {DefaultTitle})
  \/ AllIdle /\ ReqEventRemove(AllKinds)
  \/ AllIdle /\ ReqBookingCreate(AllKinds, {Undefined})
  \/ AllIdle /\ ReqBookingFindOne(AllKinds)
  \/ AllIdle /\ ReqBookingUpdate(AllKinds, BookingUpdates)
  \/ AllIdle /\ ReqBookingRemove(AllKinds)
  \/ Steps

SpecGuard == Init /\ [][NextGuard]_vars

\* Events created and retitled by one registered user, one request at a time.
EventDtos == {d \in RegisterDtos : d.email = "b@x.com"}

NextEvent ==
  \/ AllIdle /\ ReqRegister({"none"}, EventDtos)
  \/ AllIdle /\ ReqEventCreate({"valid"}, Titles)
  \/ AllIdle /\ ReqEventUpdate({"valid"}, UpdateEventDtos)
  \/ \E t \in Tasks : RegisterFind(t) \/ RegisterSave(t) \/ EventCreate(t) \/ EventUpdateSteps(t)

SpecEvent == Init /\ [][NextEvent]_vars

\* Users, events and attendees, one request at a time.
NextAttendSeq ==
  \/ AllIdle /\ ReqRegister({"none"}, BookingDtos)
  \/ AllIdle /\ ReqUserRemove({"valid"})
  \/ AllIdle /\ ReqEventCreate({"valid"}, {DefaultTitle})
  \/ AllIdle /\ ReqEventRemove({"valid"})
  \/ AllIdle /\ ReqRegisterUser({"valid"})
  \/ AllIdle /\ ReqUnregisterUser({"valid"})
  \/ AllIdle /\ ReqGetAttendees({"valid"})
  \/ \E t \in Tasks :
       \/ RegisterFind(t) \/ RegisterSave(t) \/ UserRemove(t)
       \/ EventSteps(t) \/ AttendeeSteps(t)

SpecAttendSeq == Init /\ [][NextAttendSeq]_vars

\* Register and unregister requests of a client that issues one request at
\* a time and records the responses; nothing is deleted.
NextE2E ==
  \/ AllIdle /\ ReqRegister({"none"}, BookingDtos)
  \/ AllIdle /\ ReqEventCreate({"valid"}, {DefaultTitle})
  \/ AllIdle /\ ReqRegisterUser({"valid"})
  \/ AllIdle /\ ReqUnregisterUser({"valid"})
  \/ \E t \in Tasks :
       \/ RegisterFind(t) \/ RegisterSave(t) \/ EventCreate(t)
       \/ RegisterUserFindEvent(t) \/ RegisterUserFindUser(t) \/ UnregisterUserFind(t)
       \/ AttendeesSaveLoad(t) \/ AttendeesSaveWrite(t)

SpecE2E == InitE2E /\ [][NextE2E]_vars

\* The attendee requests of two registered users, interleaved.
NextAttend ==
  \/ ReqRegister({"none"}, BookingDtos)
  \/ ReqEventCreate({"valid"}, {DefaultTitle})
  \/ ReqRegisterUser({"valid"})
  \/ ReqUnregisterUser({"valid"})
  \/ ReqGetAttendees({"valid"})
  \/ \E t \in Tasks :
       RegisterFind(t) \/ RegisterSave(t) \/ EventCreate(t) \/ AttendeeSteps(t)

SpecAttend == Init /\ [][NextAttend]_vars

\* Every request whose response carries a user, one request at a time.
NextBodies ==
  \/ AllIdle /\ ReqRegister({"none"}, RegisterDtos)
  \/ AllIdle /\ ReqLogin({"none"}, LoginDtos)
  \/ AllIdle /\ ReqProfile({"valid"})
  \/ AllIdle /\ ReqEventCreate({"valid"}, {DefaultTitle})
  \/ AllIdle /\ ReqRegisterUser({"valid"})
  \/ AllIdle /\ ReqUnregisterUser({"valid"})
  \/ AllIdle /\ ReqGetAttendees({"valid"})
  \/ AllIdle /\ ReqBookingCreate({"valid"}, {Undefined})
  \/ AllIdle /\ ReqBookingFindOne({"valid"})
  \/ AllIdle /\ ReqBookingUpdate({"valid"}, BookingUpdates)
  \/ \E t \in Tasks :
       \/ RegisterFind(t) \/ RegisterSave(t) \/ Login(t) \/ Profile(t)
       \/ EventCreate(t) \/ AttendeeSteps(t)
       \/ BookingCreateFindEvent(t) \/ BookingCreateFindExisting(t)
       \/ BookingCreateSave(t) \/ BookingCreateReload(t) \/ BookingFindOne(t)
       \/ BookingUpdateFind(t) \/ BookingUpdateSave(t) \/ BookingUpdateReload(t)

SpecBodies == Init /\ [][NextBodies]_vars

\* The bookings of two users, created, removed and listed, interleaved.
NextList ==
  \/ ReqRegister({"none"}, BookingDtos)
  \/ ReqEventCreate({"valid"}, {DefaultTitle})
  \/ ReqBookingCreate({"valid"}, {Undefined})
  \/ ReqBookingRemove({"valid"})
  \/ ReqBookingFindAll({"valid"})
  \/ \E t \in Tasks :
       \/ RegisterFind(t) \/ RegisterSave(t) \/ EventCreate(t)
       \/ BookingCreateFindEvent(t) \/ BookingCreateFindExisting(t)
       \/ BookingCreateSave(t) \/ BookingCreateReload(t)
       \/ BookingRemoveFind(t) \/ BookingRemoveDelete(t)
       \/ BookingFindAll(t)

SpecList == Init /\ [][NextList]_vars

\* Attendee requests and booking requests of two users, one request
\* at a time.
DualUpdates == {[status |-> "cancelled", notes |-> Undefined]}

NextDual ==
  \/ AllIdle /\ ReqRegister({"none"}, BookingDtos)
  \/ AllIdle /\ ReqEventCreate({"valid"}, {DefaultTitle})
  \/ AllIdle /\ ReqRegisterUser({"valid"})
  \/ AllIdle /\ ReqUnregisterUser({"valid"})
  \/ AllIdle /\ ReqBookingCreate({"valid"}, {Undefined})
  \/ AllIdle /\ ReqBookingUpdate({"valid"}, DualUpdates)
  \/ AllIdle /\ ReqBookingRemove({"valid"})
  \/ \E t \in Tasks :
       \/ RegisterFind(t) \/ RegisterSave(t) \/ EventCreate(t)
       \/ RegisterUserFindEvent(t) \/ RegisterUserFindUser(t) \/ UnregisterUserFind(t)
       \/ AttendeesSaveLoad(t) \/ AttendeesSaveWrite(t)
       \/ BookingCreateFindEvent(t) \/ BookingCreateFindExisting(t)
       \/ BookingCreateSave(t) \/ BookingCreateReload(t)
       \/ BookingUpdateFind(t) \/ BookingUpdateSave(t) \/ BookingUpdateReload(t)
       \/ BookingRemoveFind(t) \/ BookingRemoveDelete(t)

SpecDual == Init /\ [][NextDual]_vars

\* Bookings created, updated and removed while users and events are
\* deleted, interleaved.
NextRefs ==
  \/ ReqRegister({"none"}, BookingDtos)
  \/ ReqUserRemove({"valid"})
  \/ ReqEventCreate({"valid"}, {DefaultTitle})
  \/ ReqEventRemove({"valid"})
  \/ ReqBookingCreate({"valid"}, {Undefined})
  \/ ReqBookingUpdate({"valid"}, DualUpdates)
  \/ ReqBookingRemove({"valid"})
  \/ \E t \in Tasks :
       \/ RegisterFind(t) \/ RegisterSave(t) \/ UserRemove(t)
       \/ EventCreate(t) \/ EventRemove(t)
       \/ BookingCreateFindEvent(t) \/ BookingCreateFindExisting(t)
       \/ BookingCreateSave(t) \/ BookingCreateReload(t)
       \/ BookingUpdateFind(t) \/ BookingUpdateSave(t) \/ BookingUpdateReload(t)
       \/ BookingRemoveFind(t) \/ BookingRemoveDelete(t)

SpecRefs == Init /\ [][NextRefs]_vars

\* ------------------------------------------------------------------ claims
\* The step under way is a step of task t.
Stepped(t) == tasks'[t].pc # tasks[t].pc

\* The step under way admits a request into slot t.
Admitted(t) == tasks[t].pc = "idle" /\ tasks'[t].pc # "idle"

\* The bookings of table bk for the pair (u, e).
PairIn(bk, u, e) == {b \in DOMAIN bk : bk[b].userId = u /\ bk[b].eventId = e}

OwnerGated == {"bookingFindOne", "bookingUpdate", "bookingRemove"}

C1_Action ==
  \A t \in Tasks :
    ( /\ tasks[t].op \in OwnerGated
      /\ tasks[t].pc = "findBooking"
      /\ tasks[t].arg.id \in DOMAIN bookings
      /\ bookings[tasks[t].arg.id].userId # tasks[t].user.id
      /\ Stepped(t) )
    => /\ tasks'[t] = IdleTask
       /\ last'.by = "handler"
       /\ last'.op = tasks[t].op
       /\ last'.status = "Forbidden"
       /\ bookings' = bookings

\* C1: findOne, update and remove of an existing booking by a caller who is
\* not its owner end with Forbidden (not NotFound, not success), and the
\* booking stays as it is.
C1_NonOwnerForbidden == [][C1_Action]_vars

\* C1 witness: a remove by a non-owner was answered Forbidden and the booking
\* is still there.
C1_Witness ==
  /\ last.by = "handler"
  /\ last.op = "bookingRemove"
  /\ last.status = "Forbidden"
  /\ last.arg.id \in DOMAIN bookings
  /\ bookings[last.arg.id].userId # last.user.id

\* C2: with requests run one at a time, no two bookings share a
\* (userId, eventId) pair.
C2_OneBookingPerPair ==
  \A b1, b2 \in DOMAIN bookings :
    (bookings[b1].userId = bookings[b2].userId
       /\ bookings[b1].eventId = bookings[b2].eventId) => b1 = b2

\* C2 witness: a create just succeeded next to the booking of another user.
C2_Witness ==
  /\ Cardinality(DOMAIN bookings) = 2
  /\ last.op = "bookingCreate"
  /\ last.status = "Created"

C3_Action ==
  \A t \in Tasks :
    ( /\ tasks[t].op = "bookingCreate"
      /\ tasks[t].pc \in {"findEvent", "findExisting", "save"}
      /\ PairIn(bookings, tasks[t].user.id, tasks[t].arg.eventId) # {}
      /\ Stepped(t) )
    => /\ bookings' = bookings
       /\ nextBookingId' = nextBookingId
       /\ \/ tasks'[t].pc = "findExisting"
          \/ /\ tasks'[t] = IdleTask
             /\ last'.op = "bookingCreate"
             /\ last'.status = "Conflict"

\* C3: a create for a pair that already has a booking ends with Conflict, and
\* the bookings table is unchanged.
C3_DuplicateCreateConflict == [][C3_Action]_vars

\* C3 witness: a create was answered Conflict and the booking of that pair
\* is the only one of the pair.
C3_Witness ==
  /\ last.by = "handler"
  /\ last.op = "bookingCreate"
  /\ last.status = "Conflict"
  /\ Cardinality(PairIn(bookings, last.user.id, last.arg.eventId)) = 1

C4_Action ==
  \A t \in Tasks :
    ( /\ At(t, "bookingCreate", "save")
      /\ PairIn(bookings, tasks[t].user.id, tasks[t].arg.eventId) # {}
      /\ Stepped(t) )
    => /\ tasks'[t].pc = "reload"
       /\ Cardinality(PairIn(bookings', tasks[t].user.id, tasks[t].arg.eventId))
            = Cardinality(PairIn(bookings, tasks[t].user.id, tasks[t].arg.eventId)) + 1

\* C4: a create that passed the existing-booking check before another create
\* of the same pair saved still saves, so the pair ends up with two bookings.
C4_RaceDuplicates == [][C4_Action]_vars

\* C4 witness: two bookings of one (userId, eventId) pair.
C4_Witness ==
  \E b1, b2 \in DOMAIN bookings :
    /\ b1 # b2
    /\ bookings[b1].userId = bookings[b2].userId
    /\ bookings[b1].eventId = bookings[b2].eventId

PublicOps == {"register", "login"}

\* The header carries a token that validates: signed, not expired, and its
\* subject is a stored user.
TokenValidates(header) ==
  header.kind = "valid" /\ header.payload.sub \in DOMAIN users

C5_Action ==
  /\ \A t \in Tasks :
       Admitted(t) =>
         tasks'[t].op \in PublicOps \/ TokenValidates(tasks'[t].header)
  /\ last'.by = "guard" =>
       /\ last'.status = "Unauthorized"
       /\ last'.op \notin PublicOps
       /\ ~TokenValidates(last'.header)
       /\ tasks' = tasks
       /\ UNCHANGED <<db, issued>>

\* C5: a request reaches its handler iff its route is public or its token
\* validates; every other request is answered Unauthorized, no handler runs
\* and no table changes.
C5_GuardAdmitsIff == [][C5_Action]_vars

\* C5 witness: a protected request with an expired token was rejected while
\* users, events and bookings are stored.
C5_Witness ==
  /\ last.by = "guard"
  /\ last.header.kind = "expired"
  /\ last.status = "Unauthorized"
  /\ DOMAIN users # {}
  /\ DOMAIN events # {}
  /\ DOMAIN bookings # {}

\* The user id was given out and its row is gone.
Deleted(u) == u \in 1..(nextUserId - 1) /\ u \notin DOMAIN users

C6_Action ==
  /\ \A t \in Tasks :
       (Admitted(t) /\ tasks'[t].op \notin PublicOps) =>
         /\ ~Deleted(tasks'[t].header.payload.sub)
         /\ tasks'[t].user.id = tasks'[t].header.payload.sub
         /\ tasks'[t].user.email = tasks'[t].header.payload.email
  /\ (last'.by = "guard" /\ last'.header.kind = "valid") =>
       /\ Deleted(last'.header.payload.sub)
       /\ last'.status = "Unauthorized"

\* C6: once user u is deleted, a protected request with the token issued to u
\* is never admitted, though signature and expiry are valid: it is answered
\* Unauthorized.
C6_DeletedSubjectRejected == [][C6_Action]_vars

\* C6 witness: a request with an unexpired token issued to a user deleted
\* since was rejected.
C6_Witness ==
  /\ last.by = "guard"
  /\ last.header.kind = "valid"
  /\ last.header.payload \in issued
  /\ Deleted(last.header.payload.sub)
  /\ last.status = "Unauthorized"

C7_Action ==
  \A t \in Tasks :
    ( /\ tasks[t].op \in OwnerGated
      /\ tasks[t].pc = "findBooking"
      /\ tasks[t].arg.id \notin DOMAIN bookings
      /\ Stepped(t) )
    => /\ tasks'[t] = IdleTask
       /\ last'.by = "handler"
       /\ last'.op = tasks[t].op
       /\ last'.status = "NotFound"
       /\ bookings' = bookings

\* C7: findOne, update and remove of a booking id that matches no booking end
\* with NotFound for every caller, and no booking changes.
C7_MissingBookingNotFound == [][C7_Action]_vars

\* C7 witness: an update of a missing booking id was answered NotFound while
\* another booking of the caller exists.
C7_Witness ==
  /\ last.by = "handler"
  /\ last.op = "bookingUpdate"
  /\ last.status = "NotFound"
  /\ last.arg.id \notin DOMAIN bookings
  /\ \E b \in DOMAIN bookings : bookings[b].userId = last.user.id

C8_Action ==
  /\ \A t \in Tasks :
       (At(t, "bookingCreate", "save") /\ tasks'[t].pc = "reload") =>
         LET new == (DOMAIN bookings') \ DOMAIN bookings IN
         /\ Cardinality(new) = 1
         /\ \A b \in DOMAIN bookings : b \in DOMAIN bookings' /\ bookings'[b] = bookings[b]
         /\ \A b \in new :
              /\ bookings'[b].status = "pending"
              /\ bookings'[b].userId = tasks[t].header.payload.sub
              /\ bookings'[b].eventId = tasks[t].arg.eventId
              /\ tasks'[t].loc.id = b
  /\ (last'.by = "handler" /\ last'.op = "bookingCreate" /\ last'.status = "Created") =>
       /\ \E t \in Tasks : At(t, "bookingCreate", "reload") /\ tasks'[t] = IdleTask
                           /\ last'.body.id = tasks[t].loc.id
       /\ last'.body.userId = last'.header.payload.sub
       /\ last'.body.eventId = last'.arg.eventId
       /\ bookings' = bookings

\* C8: a successful create adds exactly one booking, pending, owned by the
\* authenticated caller and for the requested event, and that booking is the
\* one returned.
C8_CreateAddsOwnPending == [][C8_Action]_vars

\* C8 witness: a create was answered Created with a pending booking of the
\* caller.
C8_Witness ==
  /\ last.by = "handler"
  /\ last.op = "bookingCreate"
  /\ last.status = "Created"
  /\ last.body.status = "pending"
  /\ last.body.userId = last.user.id
  /\ last.body.id \in DOMAIN bookings

C9_Action ==
  \A t \in Tasks :
    /\ ( /\ At(t, "bookingCreate", "findEvent")
         /\ tasks[t].arg.eventId \notin DOMAIN events
         /\ Stepped(t) )
       => /\ tasks'[t] = IdleTask
          /\ last'.by = "handler"
          /\ last'.op = "bookingCreate"
          /\ last'.status = "NotFound"
          /\ UNCHANGED db
    /\ (tasks'[t].op = "bookingCreate" /\ tasks'[t].pc = "findExisting" /\ Stepped(t))
       => /\ At(t, "bookingCreate", "findEvent")
          /\ tasks[t].arg.eventId \in DOMAIN events

\* C9: a create for an event id that resolves to no event ends with NotFound
\* and persists nothing; the existing-booking check runs only after the event
\* was found.
C9_CreateUnknownEventNotFound == [][C9_Action]_vars

\* C9 witness: a create by a stored user for a missing event was answered
\* NotFound by the event lookup.
C9_Witness ==
  /\ last.by = "handler"
  /\ last.op = "bookingCreate"
  /\ last.status = "NotFound"
  /\ last.body = Msg("El evento no fue encontrado")
  /\ last.arg.eventId \notin DOMAIN events
  /\ last.user.id \in DOMAIN users

C10_Action ==
  \A t \in Tasks :
    ( /\ At(t, "register", "findUser")
      /\ \E u \in DOMAIN users : users[u].email = tasks[t].arg.email
      /\ Stepped(t) )
    => /\ tasks'[t] = IdleTask
       /\ last'.by = "handler"
       /\ last'.op = "register"
       /\ last'.status = "Conflict"
       /\ UNCHANGED <<db, issued>>

\* C10: a register with the email of a stored user ends with Conflict whatever
\* its other fields, and the users table is unchanged.
C10_DuplicateEmailConflict == [][C10_Action]_vars

\* C10 witness: a register was answered Conflict though its password,
\* displayName, avatarUrl and originWorld all differ from the stored user's.
C10_Witness ==
  /\ last.by = "handler"
  /\ last.op = "register"
  /\ last.status = "Conflict"
  /\ \E u \in DOMAIN users :
       /\ users[u].email = last.arg.email
       /\ users[u].password # BcryptHash(last.arg.password)
       /\ users[u].displayName # last.arg.displayName
       /\ users[u].avatarUrl # last.arg.avatarUrl
       /\ users[u].originWorld # last.arg.originWorld

\* The login of task t fails one of the two checks of AuthService.login.
UnknownEmail(t) == \A u \in DOMAIN users : users[u].email # tasks[t].arg.email

WrongPassword(t) ==
  \E u \in DOMAIN users :
    /\ users[u].email = tasks[t].arg.email
    /\ users[u].password # BcryptHash(tasks[t].arg.password)

C11_Action ==
  \A t \in Tasks :
    (At(t, "login", "findUser") /\ Stepped(t) /\ (UnknownEmail(t) \/ WrongPassword(t)))
    => /\ tasks'[t] = IdleTask
       /\ last'.by = "handler"
       /\ last'.op = "login"
       /\ last'.status = "Unauthorized"
       /\ last'.body = Msg("Credenciales invalidas")
       /\ UNCHANGED <<db, issued>>

Plaintexts == {d.password : d \in RegisterDtos \cup LoginDtos}

\* Every plaintext password, its hash, and every stored password.
Secrets ==
  Plaintexts \cup {BcryptHash(p) : p \in Plaintexts}
    \cup {users[u].password : u \in DOMAIN users}

\* The fields of a response that hold text.
TextFields ==
  {"email", "displayName", "avatarUrl", "originWorld", "message", "notes", "status"}

\* The object r of a response has a password field, or a password as the
\* value of one of its text fields.
Discloses(r) ==
  \/ "password" \in DOMAIN r
  \/ \E f \in DOMAIN r \cap TextFields : r[f] \in Secrets

\* The objects of the response r: its body and the users and events in it.
Objects(r) ==
  CASE r.op \in {"register", "login"} /\ r.status = "Created" ->
         {r.body.user, r.body.access_token}
    [] r.op \in {"bookingCreate", "bookingFindOne", "bookingUpdate"}
         /\ r.status \in {"OK", "Created"} ->
         {r.body, r.body.user, r.body.event}
    [] r.op \in {"registerUserToEvent", "unregisterUserFromEvent"}
         /\ r.status \in {"OK", "Created"} ->
         {r.body} \cup {r.body.attendees[i] : i \in DOMAIN r.body.attendees}
    [] r.op = "getEventAttendees" /\ r.status = "OK" ->
         {r.body[i] : i \in DOMAIN r.body}
    [] OTHER -> {r.body}

\* C12: the password stored for a registered user is never a plaintext
\* password, and no response carries a password, plaintext or hash: not the
\* register, login and profile responses, not the users inside attendee
\* lists and bookings.
C12_PasswordNeverDisclosed ==
  /\ \A u \in DOMAIN users : users[u].password \notin Plaintexts
  /\ \A r \in Objects(last) : ~Discloses(r)

\* C12 witness: two users registered with different passwords, and the
\* response to an attendee registration lists both.
C12_Witness ==
  /\ last.by = "handler"
  /\ last.op = "registerUserToEvent"
  /\ last.status = "Created"
  /\ Len(last.body.attendees) = 2
  /\ Cardinality(DOMAIN users) = 2
  /\ users[1].password # users[2].password

C13_Action ==
  \A t \in Tasks :
    (At(t, "profile", "handler") /\ Stepped(t))
    => LET p == tasks[t].header.payload IN
       /\ p \in issued
       /\ tasks'[t] = IdleTask
       /\ last'.by = "handler"
       /\ last'.op = "profile"
       /\ last'.status = "OK"
       /\ last'.body.id = p.sub
       /\ last'.body.email = p.email
       /\ p.sub \in DOMAIN users =>
            \A f \in DOMAIN last'.body : last'.body[f] = users[p.sub][f]
       /\ UNCHANGED <<db, issued>>

\* C13: profile called with the token issued to user u returns the public
\* view of u itself, whatever other users are stored.
C13_ProfileOfCaller == [][C13_Action]_vars

\* C13 witness: the second of two stored users got its own profile.
C13_Witness ==
  /\ last.by = "handler"
  /\ last.op = "profile"
  /\ last.status = "OK"
  /\ Cardinality(DOMAIN users) = 2
  /\ last.header.payload.sub = 2
  /\ last.body.id = 2
  /\ last.body.email = users[2].email

\* ---- the client's record of its attendee requests (SpecE2E)
Entries == log.entries

\* The pair of event and user an attendee request names.
PairOf(entry) == <<entry.arg.eventId, entry.arg.userId>>

\* The rows of event_attendees after the k-th recorded response: those the
\* next response found, or those stored now.
After(k) == IF k < Len(Entries) THEN Entries[k + 1].before ELSE attendees

Success(status) == status \in {"OK", "Created"}

\* The k-th recorded request is a registerUserToEvent for an event and a user
\* that exist, the user not attending the event.
FreshRegister(k) ==
  /\ Entries[k].op = "registerUserToEvent"
  /\ Entries[k].status # "NotFound"
  /\ PairOf(Entries[k]) \notin Entries[k].before

\* The j-th recorded request repeats the k-th as operation op.
Again(j, k, op) ==
  /\ j <= Len(Entries)
  /\ Entries[j].op = op
  /\ Entries[j].arg = Entries[k].arg

\* C14: of two registerUserToEvent calls in a row for one pair, the event and
\* the user existing and the user not attending, the first succeeds and the
\* second is answered BadRequest; over both calls the attendees grow by
\* exactly that one user.
C14_SecondRegisterRejected ==
  \A k \in DOMAIN Entries :
    (FreshRegister(k) /\ Again(k + 1, k, "registerUserToEvent"))
    => /\ Success(Entries[k].status)
       /\ Entries[k + 1].status = "BadRequest"
       /\ Entries[k + 1].body = Msg("User is already registered to event")
       /\ After(k) = Entries[k].before \cup {PairOf(Entries[k])}
       /\ After(k + 1) = After(k)
       /\ Cardinality(After(k + 1)) = Cardinality(Entries[k].before) + 1

\* C14 witness: the client registered the second user twice in a row to an
\* event the first user attends, and got Created and then BadRequest.
C14_Witness ==
  \E k \in DOMAIN Entries :
    /\ FreshRegister(k)
    /\ Again(k + 1, k, "registerUserToEvent")
    /\ Entries[k].status = "Created"
    /\ Entries[k + 1].status = "BadRequest"
    /\ Entries[k].arg.userId = 2
    /\ Entries[k].before = {<<Entries[k].arg.eventId, 1>>}

C15_Action ==
  \A t \in Tasks :
    (/\ At(t, "unregisterUserFromEvent", "findEvent")
     /\ Stepped(t)
     /\ tasks[t].arg.eventId \in DOMAIN events
     /\ tasks[t].arg.userId \notin AttendeesOf(tasks[t].arg.eventId))
    => /\ tasks'[t] = IdleTask
       /\ last'.by = "handler"
       /\ last'.op = "unregisterUserFromEvent"
       /\ last'.status = "BadRequest"
       /\ last'.body = Msg("User is not registered to event")
       /\ attendees' = attendees
       /\ UNCHANGED db

NoDuplicate(list) ==
  \A i, j \in DOMAIN list : list[i].id = list[j].id => i = j

\* Task t holds an event loaded with its attendees.
HoldsEvent(t) ==
  SavesAttendees(t) /\ tasks[t].pc \in {"findUser", "saveLoad", "saveWrite"}

\* C16: with attendee requests served one at a time, no user id occurs more
\* than once among the attendees of an event: not in the stored collection
\* as it loads, not in the array a handler holds and saves, not in a
\* response.
C16_NoDuplicateAttendee ==
  /\ \A e \in DOMAIN events :
       /\ NoDuplicate(LoadedEvent(e).attendees)
       /\ Len(LoadedEvent(e).attendees) = Cardinality(AttendeesOf(e))
  /\ \A t \in Tasks : HoldsEvent(t) => NoDuplicate(tasks[t].loc.event.attendees)
  /\ (last.by = "handler" /\ last.op \in {"registerUserToEvent", "unregisterUserFromEvent"}
        /\ Success(last.status))
     => NoDuplicate(last.body.attendees)
  /\ (last.by = "handler" /\ last.op = "getEventAttendees" /\ last.status = "OK")
     => NoDuplicate(last.body)

\* C16 witness: the second of two users was registered to the event the
\* first attends, and the response lists both.
C16_Witness ==
  /\ last.by = "handler"
  /\ last.op = "registerUserToEvent"
  /\ last.status = "Created"
  /\ Len(last.body.attendees) = 2
  /\ AttendeesOf(last.arg.eventId) = {1, 2}

C18_Action ==
  \A t \in Tasks :
    LET e == tasks[t].arg.eventId
        u == tasks[t].arg.userId
        NotFound(m) ==
          /\ tasks'[t] = IdleTask
          /\ last'.by = "handler"
          /\ last'.op = "registerUserToEvent"
          /\ last'.status = "NotFound"
          /\ last'.body = Msg(m)
    IN /\ (At(t, "registerUserToEvent", "findEvent") /\ Stepped(t))
          => /\ IF e \notin DOMAIN events
                THEN NotFound("Event was not found")
                ELSE tasks'[t].pc = "findUser" /\ tasks'[t].loc.event.id = e
             /\ UNCHANGED db
       /\ (At(t, "registerUserToEvent", "findUser") /\ Stepped(t))
          => /\ u \notin DOMAIN users => NotFound("User was not found")
             /\ u \in DOMAIN users => last'.status # "NotFound"
             /\ UNCHANGED db

\* C18: registerUserToEvent is answered NotFound when the event does not
\* exist, whether or not the user does, and otherwise NotFound when the user
\* does not exist; the event is looked up first, the user second, the
\* already-registered check comes after both, and no attendee set changes.
C18_RegisterNotFoundOrder == [][C18_Action]_vars

\* C18 witness: a registration naming a deleted event and a user that does
\* not exist was answered that the event was not found.
C18_Witness ==
  /\ last.by = "handler"
  /\ last.op = "registerUserToEvent"
  /\ last.status = "NotFound"
  /\ last.body = Msg("Event was not found")
  /\ last.arg.eventId < nextEventId
  /\ last.arg.userId \notin DOMAIN users
  /\ DOMAIN users # {}

\* The users attending event e according to the rows S of event_attendees.
AttendingIn(S, e) == {a[2] : a \in {x \in S : x[1] = e}}

\* The ids of an array of users, in the array's order.
IdSeq(list) == [i \in DOMAIN list |-> list[i].id]

\* C19: for an existing event E and a user A not attending it, register A
\* succeeds and returns the event with A added (attendees = [A] when it had
\* none); a second register A is answered BadRequest; unregister A then
\* succeeds and returns and leaves the attendees as they were before the
\* first call; a second unregister A is answered BadRequest. A register
\* followed at once by the unregister of the same pair restores the attendees.
C19_RegisterUnregisterRoundTrip ==
  \A k \in DOMAIN Entries :
    FreshRegister(k) =>
      LET e == Entries[k].arg.eventId
          A == Entries[k].arg.userId
          was == Entries[k].before
      IN /\ Success(Entries[k].status)
         /\ IdsOf(Entries[k].body.attendees) = AttendingIn(was, e) \cup {A}
         /\ AttendingIn(was, e) = {} => IdSeq(Entries[k].body.attendees) = <<A>>
         /\ After(k) = was \cup {<<e, A>>}
         /\ Again(k + 1, k, "registerUserToEvent") =>
              /\ Entries[k + 1].status = "BadRequest"
              /\ Again(k + 2, k, "unregisterUserFromEvent") =>
                   /\ Success(Entries[k + 2].status)
                   /\ IdsOf(Entries[k + 2].body.attendees) = AttendingIn(was, e)
                   /\ After(k + 2) = was
                   /\ Again(k + 3, k, "unregisterUserFromEvent") =>
                        /\ Entries[k + 3].status = "BadRequest"
                        /\ After(k + 3) = was
         /\ Again(k + 1, k, "unregisterUserFromEvent") =>
              /\ Success(Entries[k + 1].status)
              /\ IdsOf(Entries[k + 1].body.attendees) = AttendingIn(was, e)
              /\ After(k + 1) = was

\* C19 witness: the client ran the four calls on an event without attendees
\* and got Created with attendees [A], BadRequest, OK with no attendees and
\* BadRequest, and the event has no attendees again.
C19_Witness ==
  /\ Len(Entries) = 4
  /\ FreshRegister(1)
  /\ Entries[1].before = {}
  /\ Again(2, 1, "registerUserToEvent")
  /\ Again(3, 1, "unregisterUserFromEvent")
  /\ Again(4, 1, "unregisterUserFromEvent")
  /\ IdSeq(Entries[1].body.attendees) = <<Entries[1].arg.userId>>
  /\ Entries[3].body.attendees = <<>>
  /\ [i \in 1..4 |-> Entries[i].status] = <<"Created", "BadRequest", "OK", "BadRequest">>
  /\ attendees = {}

\* ---- two registrations of one pair, interleaved (SpecAttend)
\* How often user u occurs in an array of users.
Occurrences(list, u) == Cardinality({i \in DOMAIN list : list[i].id = u})

\* Task t registers a user that another request stored as an attendee after
\* t loaded the event: t's array lacks the user, or has it by t's own append.
Overtaken(t) ==
  /\ tasks[t].op = "registerUserToEvent"
  /\ tasks[t].pc \in {"findUser", "saveLoad", "saveWrite"}
  /\ PairOf(tasks[t]) \in attendees
  /\ tasks[t].pc = "findUser" =>
       Occurrences(tasks[t].loc.event.attendees, tasks[t].arg.userId) = 0

C17_OriginalAction ==
  \A t \in Tasks :
    (Overtaken(t) /\ tasks[t].pc = "saveWrite" /\ Stepped(t))
    => /\ Success(last'.status)
       /\ Occurrences(last'.body.attendees, tasks[t].arg.userId) = 2

C17_Action ==
  \A t \in Tasks :
    LET u == tasks[t].arg.userId
        e == tasks[t].arg.eventId
    IN (Overtaken(t) /\ Stepped(t)) =>
         /\ <<e, u>> \in attendees'
         /\ tasks[t].pc = "findUser" =>
              /\ tasks'[t].pc = "saveLoad"
              /\ Occurrences(tasks'[t].loc.event.attendees, u) = 1
              /\ UNCHANGED db
         /\ tasks[t].pc = "saveLoad" =>
              /\ tasks'[t].pc = "saveWrite"
              /\ UNCHANGED db
         /\ tasks[t].pc = "saveWrite" =>
              /\ tasks'[t] = IdleTask
              /\ last'.op = "registerUserToEvent"
              /\ last'.status \in {"Created", "InternalError"}
              /\ last'.status = "Created" =>
                   /\ u \in tasks[t].loc.dbAttendees
                   /\ Occurrences(last'.body.attendees, u) = 1
              /\ last'.status = "InternalError" => UNCHANGED db

ConferenceX == <<"C", "o", "n", "f", "e", "r", "e", "n", "c", "e", " ", "X">>

\* C20: an event created with the title "  conference   X  " is stored, and
\* returned, with the title "Conference X".
C20_ExampleTitleStored ==
  (last.by = "handler" /\ last.op = "eventCreate" /\ last.status = "Created"
     /\ last.arg.title = ExampleTitle)
  => /\ last.body.title = ConferenceX
     /\ events[last.body.id].title = ConferenceX

\* ---- BookingService.update, one request at a time (SpecSeq)
\* Task t updates a booking that exists and is the caller's.
OwnUpdate(t) ==
  /\ tasks[t].op = "bookingUpdate"
  /\ tasks[t].arg.id \in DOMAIN bookings
  /\ bookings[tasks[t].arg.id].userId = tasks[t].user.id

C21_Action ==
  \A t \in Tasks :
    LET id == tasks[t].arg.id
        dto == tasks[t].arg
    IN /\ (At(t, "bookingUpdate", "save") /\ Stepped(t)) =>
            /\ OwnUpdate(t)
            /\ tasks'[t].pc = "reload"
            /\ DOMAIN bookings' = DOMAIN bookings
            /\ \A b \in DOMAIN bookings : b # id => bookings'[b] = bookings[b]
            /\ bookings'[id].id = bookings[id].id
            /\ bookings'[id].userId = bookings[id].userId
            /\ bookings'[id].eventId = bookings[id].eventId
            /\ bookings'[id].status =
                 IF dto.status = Undefined THEN bookings[id].status ELSE dto.status
            /\ bookings'[id].notes =
                 IF dto.notes = Undefined THEN bookings[id].notes ELSE dto.notes
            /\ UNCHANGED <<users, events, attendees>>
       /\ (At(t, "bookingUpdate", "reload") /\ Stepped(t)) =>
            /\ OwnUpdate(t)
            /\ last'.status = "OK"
            /\ \A f \in {"id", "userId", "eventId", "status", "notes"} :
                 last'.body[f] = bookings[id][f]
            /\ UNCHANGED db

\* C21: a successful update of a booking by its owner changes the fields the
\* request provides and no other: with notes alone the status stays, with
\* status alone the notes stay, id, userId and eventId always stay, and no
\* other booking is touched.
C21_UpdateOnlyProvided == [][C21_Action]_vars

\* C21 witness: a booking that was confirmed and given notes was updated
\* with notes alone, next to another booking, and is still confirmed.
C21_Witness ==
  /\ last.by = "handler"
  /\ last.op = "bookingUpdate"
  /\ last.status = "OK"
  /\ last.arg.status = Undefined
  /\ last.arg.notes = "vip"
  /\ last.body.status = "confirmed"
  /\ bookings[last.arg.id].status = "confirmed"
  /\ Cardinality(DOMAIN bookings) = 2

C24_Action ==
  \A t \in Tasks :
    LET id == tasks[t].arg.id
        s == tasks[t].arg.status
    IN (OwnUpdate(t) /\ s \in BookingStatus /\ Stepped(t)) =>
         /\ tasks[t].pc = "findBooking" =>
              tasks'[t].pc = "save" /\ UNCHANGED db
         /\ tasks[t].pc = "save" =>
              tasks'[t].pc = "reload" /\ bookings'[id].status = s
         /\ tasks[t].pc = "reload" =>
              /\ last'.status = "OK"
              /\ last'.body.status = s
              /\ bookings'[id].status = s

\* C24: an update with status s by the owner of a booking is accepted from
\* every current status, cancelled to pending and confirmed to pending
\* included, and leaves the booking with status s.
C24_EveryTransitionAllowed == [][C24_Action]_vars

\* C24 witness: the update of a cancelled booking to pending passed the
\* checks and is about to be saved.
C24_Witness ==
  \E t \in Tasks :
    /\ At(t, "bookingUpdate", "save")
    /\ OwnUpdate(t)
    /\ bookings[tasks[t].arg.id].status = "cancelled"
    /\ tasks[t].arg.status = "pending"
    /\ tasks[t].loc.status = "pending"

C22_Action ==
  \A t \in Tasks :
    (At(t, "bookingFindAll", "find") /\ Stepped(t)) =>
      LET c == tasks[t].header.payload.sub
          mine == {b \in DOMAIN bookings : bookings[b].userId = c}
          found == last'.body
      IN /\ last'.by = "handler"
         /\ last'.op = "bookingFindAll"
         /\ last'.status = "OK"
         /\ {found[i].id : i \in DOMAIN found} = mine
         /\ Len(found) = Cardinality(mine)
         /\ \A i \in DOMAIN found :
              /\ found[i].userId = c
              /\ \A f \in DOMAIN bookings[found[i].id] :
                   found[i][f] = bookings[found[i].id][f]
         /\ \A i, j \in DOMAIN found :
              i < j => found[i].createdAt >= found[j].createdAt
         /\ UNCHANGED db

\* C22: findAllByUser(c) returns the bookings whose userId is c, each once,
\* none of another user and none of c's left out, ordered by creation time,
\* newest first.
C22_FindAllOwnNewestFirst == [][C22_Action]_vars

\* C22 witness: the caller got its two bookings, the later one first.
C22_Witness ==
  /\ last.by = "handler"
  /\ last.op = "bookingFindAll"
  /\ last.status = "OK"
  /\ Len(last.body) = 2
  /\ last.body[1].createdAt > last.body[2].createdAt
  /\ last.body[1].id = 2

C26_Action ==
  \A t \in Tasks :
    (At(t, "bookingCreate", "findExisting") /\ Stepped(t)) =>
      LET u == tasks[t].header.payload.sub
          e == tasks[t].arg.eventId
      IN /\ IF PairIn(bookings, u, e) # {}
            THEN /\ tasks'[t] = IdleTask
                 /\ last'.op = "bookingCreate"
                 /\ last'.status = "Conflict"
            ELSE tasks'[t].pc = "save"
         /\ UNCHANGED db

\* C26: the duplicate check of create does not look at the status: while a
\* booking of the caller for the event exists, cancelled or not, create for
\* that pair is answered Conflict and stores nothing; it passes the check
\* only when no such booking exists, the earlier one having been removed.
C26_CancelledStillConflicts == [][C26_Action]_vars

\* C26 witness: a create was answered Conflict while the caller's only
\* booking for the event is cancelled.
C26_Witness ==
  /\ last.by = "handler"
  /\ last.op = "bookingCreate"
  /\ last.status = "Conflict"
  /\ PairIn(bookings, last.header.payload.sub, last.arg.eventId) # {}
  /\ \A b \in PairIn(bookings, last.header.payload.sub, last.arg.eventId) :
       bookings[b].status = "cancelled"

\* A second create of the only user for the only event was answered Created
\* after the booking of the first was removed.
C26_CreatedAfterRemove ==
  /\ last.by = "handler"
  /\ last.op = "bookingCreate"
  /\ last.status = "Created"
  /\ last.body.id = 2
  /\ DOMAIN bookings = {2}
  /\ nextUserId = 2
  /\ nextEventId = 2

\* The requests that write event_attendees, and those that write bookings.
MembershipOps == {"registerUserToEvent", "unregisterUserFromEvent"}

BookingWriteOps == {"bookingCreate", "bookingUpdate", "bookingRemove"}

C23_Action ==
  \A t \in Tasks :
    /\ (tasks[t].op \in MembershipOps /\ Stepped(t)) =>
         bookings' = bookings /\ nextBookingId' = nextBookingId
    /\ (tasks[t].op \in BookingWriteOps /\ Stepped(t)) =>
         attendees' = attendees

\* C23: attendee membership and bookings are independent: no step of
\* registerUserToEvent or unregisterUserFromEvent creates, changes or
\* deletes a booking, and no step of booking create, update or remove
\* changes the attendees of an event; a user can attend an event without a
\* booking for it and hold a booking without attending.
C23_MembershipAndBookingApart == [][C23_Action]_vars

\* C23 witness: the first user attends the event and has no booking for it,
\* the second has a booking for it and does not attend, and a membership
\* request has just been answered.
C23_Witness ==
  /\ attendees = {<<1, 1>>}
  /\ PairIn(bookings, 1, 1) = {}
  /\ PairIn(bookings, 2, 1) # {}
  /\ last.by = "handler"
  /\ last.op \in MembershipOps
  /\ Success(last.status)

C25_Action ==
  \A t \in Tasks :
    (/\ At(t, "unregisterUserFromEvent", "findEvent")
     /\ Stepped(t)
     /\ \/ tasks[t].arg.eventId \notin DOMAIN events
        \/ tasks[t].arg.userId \notin DOMAIN users)
    => /\ tasks'[t] = IdleTask
       /\ last'.op = "unregisterUserFromEvent"
       /\ last'.status = "NotFound"

\* C25: unregisterUserFromEvent is answered NotFound when the event does not
\* exist or when the user does not exist.
C25_UnregisterNotFound == [][C25_Action]_vars

C27_Action ==
  \A t \in Tasks :
    (/\ tasks[t].op = "registerUserToEvent"
     /\ tasks[t].pc = "saveWrite"
     /\ Stepped(t)
     /\ last'.status = "Created")
    => /\ PairOf(tasks[t]) \in attendees'
       /\ attendees \subseteq attendees'

\* C27: when registerUserToEvent requests for two different users of one
\* event interleave and both succeed, both users are attendees afterwards:
\* the successful save of one registration removes no attendee that another
\* request stored.
C27_RegistrationsBothKept == [][C27_Action]_vars

\* C28: every stored booking names an event that exists and a user that
\* exists, also after events and users were deleted and when the event of a
\* create is deleted between the create's existence check and its save.
C28_BookingsReferToExisting ==
  \A b \in DOMAIN bookings :
    /\ bookings[b].eventId \in DOMAIN events
    /\ bookings[b].userId \in DOMAIN users

\* C28 witness: the event of a create was deleted after the create's check
\* and the save of the booking was refused.
C28_Witness ==
  /\ last.by = "handler"
  /\ last.op = "bookingCreate"
  /\ last.status = "InternalError"
  /\ last.arg.eventId \notin DOMAIN events
  /\ last.arg.eventId < nextEventId

\* The booking id was given out and its row is gone: the booking was removed.
Removed(b) == b \in 1..(nextBookingId - 1) /\ b \notin DOMAIN bookings

C29_Action ==
  \A b \in BookingIds :
    Removed(b) =>
      /\ b \notin DOMAIN bookings'
      /\ \A t \in Tasks :
           (At(t, "bookingFindOne", "findBooking") /\ tasks[t].arg.id = b /\ Stepped(t))
           => last'.status = "NotFound"

\* C29: once remove(b) by the owner has succeeded, booking b exists in no
\* later state and findOne(b) is answered NotFound for every caller, also
\* when an update of b by the owner loaded b before the delete and saves it
\* after.
C29_RemovedStaysRemoved == [][C29_Action]_vars

\* C30: no two stored users have the same email, also when two register
\* requests with one email interleave between the existing-user check and
\* the save.
C30_EmailsUnique ==
  \A u1, u2 \in DOMAIN users : users[u1].email = users[u2].email => u1 = u2

\* C30 witness: two registrations with one email both passed the check; the
\* first stored its user and the second's insert was refused.
C30_Witness ==
  /\ last.by = "handler"
  /\ last.op = "register"
  /\ last.status = "InternalError"
  /\ Cardinality({u \in DOMAIN users : users[u].email = last.arg.email}) = 1

====
